---------------------------- MODULE Spec2Model ----------------------------
(***************************************************************************)
(* Model of the Data Collection OFT generator (src/app6.py).               *)
(*                                                                         *)
(* Text is a sequence of symbols.  A symbol is either one character that   *)
(* the code treats specially (";" "," " " "<" ">" "@" "." "{" "}" "&" and  *)
(* the quotes), one letter, or a run of ordinary characters written as one *)
(* word ("Bain", "acme").  No word is the concatenation of other symbols   *)
(* in use, so two texts are equal exactly when their symbol sequences are. *)
(***************************************************************************)
EXTENDS Naturals, Sequences, FiniteSets, TLC

VARIABLES
    func,       \* the function chosen in the sidebar (func_name)
    rows,       \* the records read from the uploaded sheet
    i,          \* index of the row the loop is at (1-based)
    pc,         \* position of the batch run
    cur,        \* the locals of the current loop iteration
    status,     \* the status list
    archive,    \* the entries written to the zip file, in order
    calls,      \* the calls made to create_oft_bytes_reuse, in order
    renders,    \* the calls made to render_text by the batch, in order
    checks,     \* the calls made to assert_recipients_or_warn, in order
    warnings,   \* the st.warning messages shown
    com,        \* number of CoInitialize calls not yet matched by CoUninitialize
    fn,         \* pure-function harness: the function applied ("idle" before)
    arg,        \* pure-function harness: its arguments
    ret         \* pure-function harness: its result

batchVars == <<func, rows, i, pc, cur, status, archive, calls, renders, checks, warnings, com>>
fnVars == <<fn, arg, ret>>
vars == <<func, rows, i, pc, cur, status, archive, calls, renders, checks, warnings, com, fn, arg, ret>>

-----------------------------------------------------------------------------
(* Bounds *)

\* longest batch
MaxRows == 2
\* longest text (in symbols) given to build_cc, cut in two sources
MaxLen == 4
\* most entries of the To list and of the CC list given to dedup_against_to
MaxEntries == 2
\* most fragments a recipient string given to the validator is made of
MaxFrags == 4
\* longest client name (in symbols) given to the renderer
MaxValLen == 2

\* the days of the calendar of the case filter
MaxDay == 2

\* the pieces an Applicable Functions cell is made of
MaxTags == 2

\* the rows of a case repository
MaxCases == 1

-----------------------------------------------------------------------------
(* Text helpers: Python str methods on symbol sequences *)

RECURSIVE Concat(_)
\* "".join(parts)
Concat(parts) ==
    IF parts = <<>> THEN <<>> ELSE Head(parts) \o Concat(Tail(parts))

\* the texts over alphabet A of at most n symbols
Texts(A, n) == UNION {[1..k -> A] : k \in 0..n}

WhiteSpace == {" ", "\t", "\n", "\r"}

LowerOf ==
    [A |-> "a", B |-> "b", C |-> "c", X |-> "x", Y |-> "y", ERDDBTeam |-> "erddbteam", Global |-> "global",
     Bain |-> "bain", Sebastian |-> "sebastian", Sambale |-> "sambale",
     John |-> "john", TL |-> "tl", Acme |-> "acme", Co |-> "co", Dana |-> "dana", Pat |-> "pat",
     Doe |-> "doe", Smith |-> "smith", Poc |-> "poc", N |-> "n",
     Engineering |-> "engineering", Research |-> "research", Development |-> "development",
     Procurement |-> "procurement", PROCUREMENT |-> "procurement", Supply |-> "supply",
     Chain |-> "chain", Manufacturing |-> "manufacturing", Finance |-> "finance",
     Allow |-> "allow", Data |-> "data", Collection |-> "collection"]

\* str.lower(), symbol by symbol
lower(s) == [k \in 1..Len(s) |-> IF s[k] \in DOMAIN LowerOf THEN LowerOf[s[k]] ELSE s[k]]

RECURSIVE lstrip(_)
lstrip(s) ==
    IF s # <<>> /\ Head(s) \in WhiteSpace THEN lstrip(Tail(s)) ELSE s

RECURSIVE rstrip(_)
rstrip(s) ==
    IF s # <<>> /\ s[Len(s)] \in WhiteSpace THEN rstrip(SubSeq(s, 1, Len(s) - 1)) ELSE s

\* str.strip()
strip(s) == lstrip(rstrip(s))

\* str.replace(old, new) for one-symbol old and new
replace(s, old, new) == [k \in 1..Len(s) |-> IF s[k] = old THEN new ELSE s[k]]

\* index of the first occurrence of symbol c in s, 0 when there is none
find(s, c) ==
    IF \E k \in 1..Len(s) : s[k] = c
    THEN CHOOSE k \in 1..Len(s) : s[k] = c /\ \A j \in 1..(k - 1) : s[j] # c
    ELSE 0

RECURSIVE split(_, _)
\* str.split(sep) for a one-symbol sep: every piece, empty ones included
split(s, sep) ==
    IF find(s, sep) = 0 THEN <<s>>
    ELSE <<SubSeq(s, 1, find(s, sep) - 1)>> \o split(SubSeq(s, find(s, sep) + 1, Len(s)), sep)

\* str.split(sep, 1): at most one cut
split1(s, sep) ==
    IF find(s, sep) = 0 THEN <<s>>
    ELSE <<SubSeq(s, 1, find(s, sep) - 1), SubSeq(s, find(s, sep) + 1, Len(s))>>

RECURSIVE join(_, _)
\* sep.join(parts)
join(sep, parts) ==
    IF parts = <<>> THEN <<>>
    ELSE IF Len(parts) = 1 THEN parts[1]
    ELSE parts[1] \o sep \o join(sep, Tail(parts))

RECURSIVE SelectFrom(_, _, _)
\* [s[k] for k in order from k0 if keep[k]], keep a sequence of flags
SelectFrom(s, keep, k0) ==
    IF k0 > Len(s) THEN <<>>
    ELSE (IF keep[k0] THEN <<s[k0]>> ELSE <<>>) \o SelectFrom(s, keep, k0 + 1)

Range(s) == {s[k] : k \in 1..Len(s)}

-----------------------------------------------------------------------------
(* Recipient helpers *)

\* [p.strip() for p in s.replace(",", ";").split(";") if p.strip()]
_split_recipients(s) ==
    LET pieces == split(replace(s, ",", ";"), ";")
        stripped == [k \in 1..Len(pieces) |-> strip(pieces[k])]
    IN SelectSeq(stripped, LAMBDA p : p # <<>>)

\* a plausible slip: compare the entries as written, not lower-cased
dedup_keep_first_cased(parts) ==
    SelectFrom(parts, [k \in 1..Len(parts) |-> \A j \in 1..(k - 1) : parts[j] # parts[k]], 1)

\* the loop of build_cc: keep the first of the entries that agree in lower case
dedup_keep_first(parts) ==
    SelectFrom(parts, [k \in 1..Len(parts) |-> \A j \in 1..(k - 1) : lower(parts[j]) # lower(parts[k])], 1)

\* the list build_cc joins
build_cc_list(chunks) ==
    dedup_keep_first(Concat([k \in 1..Len(chunks) |-> _split_recipients(chunks[k])]))

build_cc(chunks) == join(<<";", " ">>, build_cc_list(chunks))

dedup_against_to(to_, cc_) ==
    LET to_set == {lower(x) : x \in Range(_split_recipients(to_))}
        cc_list == SelectSeq(_split_recipients(cc_), LAMBDA x : lower(x) \notin to_set)
    IN join(<<";", " ">>, cc_list)

strip_angle_display(s0) ==
    LET s == strip(s0)
        inside == strip(split1(split1(s, "<")[2], ">")[1])
    IN IF "<" \in Range(s) /\ ">" \in Range(s)
       THEN (IF inside # <<>> THEN inside ELSE s)
       ELSE s

\* re.match(r"^[^@\s]+@[^@\s]+\.[^@\s]+$", s): s = L @ D . T with L, D, T
\* non-empty and free of "@" and white space
EMAIL_RE(s) ==
    \E at \in 1..Len(s), dot \in 1..Len(s) :
        /\ s[at] = "@" /\ s[dot] = "."
        /\ 1 < at /\ at + 1 < dot /\ dot < Len(s)
        /\ \A k \in 1..Len(s) : k # at => s[k] \notin ({"@"} \cup WhiteSpace)

looks_like_email(s) == EMAIL_RE(strip_angle_display(s))

\* the list bad of assert_recipients_or_warn
bad_recipients(recips) ==
    SelectSeq(_split_recipients(recips),
              LAMBDA r : r # <<"/", "/">> /\ ~looks_like_email(strip_angle_display(r)))

assert_recipients_or_warn(recips) == bad_recipients(recips) = <<>>

-----------------------------------------------------------------------------
(* Templates.  A stretch of template prose that holds no brace is written *)
(* as one symbol, named by the text it opens with.                         *)

SUBJECT_ERD ==
    <<"ER&D", " Data Collection - ", "{", "{", " ", "case_code", " ", "}", "}",
      " (", "{", "{", " ", "client_name", " ", "}", "}", ")">>

BODY_SEBASTIAN_ERD ==
    <<"<p>Hi ", "{", "{", " ", "case_manager_name", " ", "}", "}",
      ",</p><p>Hope you are doing well!</p><p>I am the practice manager ... your work with <strong>",
      "{", "{", " ", "client_name", " ", "}", "}", "</strong> (<strong>",
      "{", "{", " ", "case_code", " ", "}", "}",
      "</strong>). From what we heard ... <p>Best,<br/>Sebastian</p>">>

BODY_POC_ERD ==
    <<"<p>Hi ", "{", "{", " ", "case_manager_name", " ", "}", "}",
      ",</p><p>Hope you're doing well!</p><p>I work with the Benchmarking team ... you are doing with <strong>",
      "{", "{", " ", "client_name", " ", "}", "}", "</strong>(<strong>",
      "{", "{", " ", "case_code", " ", "}", "}",
      "</strong>). To kick-start ... <p>Thank you,<br/>",
      "{", "{", " ", "poc_display_name", " ", "}", "}",
      "</p><p><em>More details on the survey</em></p> ... </ul>">>

BODY_ASEEM_ERD ==
    <<"<p>Hi ", "{", "{", " ", "case_manager_name", " ", "}", "}",
      ",</p><p>Hope you're doing well.</p><p>I lead the ER&amp;D benchmarking team ... data survey for <strong>",
      "{", "{", " ", "client_name", " ", "}", "}",
      "</strong>.</p> ... <p>Best,<br/>Aseem</p>">>

\* the source text of the f-string of _lipsum_initial
lipsum_initial_src ==
    <<"<p>Hi ", "{", "{", " ", "{", "{", " ", "case_manager_name", " ", "}", "}", " ", "}", "}",
      ",</p><p>Hope you are doing well!</p><p>I am writing regarding your work with <strong>",
      "{", "{", "{", "{", " ", "client_name", " ", "}", "}", "}", "}", "</strong> (<strong>",
      "{", "{", "{", "{", " ", "case_code", " ", "}", "}", "}", "}",
      "</strong>) and our ongoing Data Collection initiative for <strong>",
      "{", "func_label", "}",
      "</strong>. Lorem ipsum ... <p>Best,<br/>Sebastian</p>">>

\* the source text of the f-string of _lipsum_poc
lipsum_poc_src ==
    <<"<p>Hi ", "{", "{", " ", "{", "{", " ", "case_manager_name", " ", "}", "}", " ", "}", "}",
      ",</p><p>Hope you're doing well!</p><p>Following up ... <a href=\"#\">linked survey</a> for <strong>",
      "{", "func_label", "}", "</strong> based on the work with <strong>",
      "{", "{", "{", "{", " ", "client_name", " ", "}", "}", "}", "}", "</strong> (<strong>",
      "{", "{", "{", "{", " ", "case_code", " ", "}", "}", "}", "}",
      "</strong>). To kick-start ... <p>Thank you,<br/>",
      "{", "{", "{", "{", " ", "poc_display_name", " ", "}", "}", "}", "}",
      "</p><p><em>More details on the survey</em></p> ... relevant to ",
      "{", "func_label", "}", ".</p><ul><li>Demographics tab</li><li>Overall ",
      "{", "func_label", "}", " Survey tab</li><li>",
      "{", "func_label", "}", " Advanced tab (optional)</li></ul> ... Lorem ipsum dolor sit amet.</p>">>

\* the source text of the f-string of _lipsum_escalation
lipsum_escalation_src ==
    <<"<p>Hi ", "{", "{", " ", "{", "{", " ", "case_manager_name", " ", "}", "}", " ", "}", "}",
      ",</p><p>Hope you're doing well.</p><p>Following up on the below ... data survey for <strong>",
      "{", "{", "{", "{", " ", "client_name", " ", "}", "}", "}", "}", "</strong> (",
      "{", "func_label", "}",
      "). Lorem ipsum ... <p>Best,<br/>Aseem</p>">>

\* the source text of the f-string of the subject of the other functions
subject_src ==
    <<"{", "func_name", "}", " Data Collection - ",
      "{", "{", " ", "{", "{", " ", "case_code", " ", "}", "}", " ", "}", "}", " (",
      "{", "{", " ", "{", "{", " ", "client_name", " ", "}", "}", " ", "}", "}", ")">>

RECURSIVE fstring(_, _)
\* Python's evaluation of an f-string literal: "{{" and "}}" are one brace
\* each, "{name}" is the value of the name (here always the function name)
fstring(src, value) ==
    IF src = <<>> THEN <<>>
    ELSE IF Len(src) >= 2 /\ src[1] = "{" /\ src[2] = "{"
        THEN <<"{">> \o fstring(SubSeq(src, 3, Len(src)), value)
    ELSE IF Len(src) >= 2 /\ src[1] = "}" /\ src[2] = "}"
        THEN <<"}">> \o fstring(SubSeq(src, 3, Len(src)), value)
    ELSE IF Len(src) >= 3 /\ src[1] = "{" /\ src[3] = "}"
        THEN value \o fstring(SubSeq(src, 4, Len(src)), value)
    ELSE <<Head(src)>> \o fstring(Tail(src), value)

_lipsum_initial(func_label) == fstring(lipsum_initial_src, <<func_label>>)

_lipsum_poc(func_label) == fstring(lipsum_poc_src, <<func_label>>)

_lipsum_escalation(func_label) == fstring(lipsum_escalation_src, <<func_label>>)

FUNCTIONS == <<"ER&D", "Supply Chain", "Procurement", "Manufacturing">>

get_templates_for_function(func_name) ==
    IF func_name = "ER&D"
    THEN [subject |-> SUBJECT_ERD, sebastian |-> BODY_SEBASTIAN_ERD,
          poc |-> BODY_POC_ERD, aseem |-> BODY_ASEEM_ERD, subject_label |-> "ER&D"]
    ELSE [subject |-> fstring(subject_src, <<func_name>>),
          sebastian |-> _lipsum_initial(func_name),
          poc |-> _lipsum_poc(func_name),
          aseem |-> _lipsum_escalation(func_name),
          subject_label |-> func_name]

-----------------------------------------------------------------------------
(* Rendering: jinja2's Environment(autoescape=...).from_string(t).render(ctx) *)

\* the symbols that are identifiers of the template language
Identifiers ==
    {"client_name", "case_code", "case_manager_name", "poc_display_name", "today", "nickname"}

\* index of the first "{{" of t, 0 when there is none
find_open(t) ==
    IF \E k \in 1..(Len(t) - 1) : t[k] = "{" /\ t[k + 1] = "{"
    THEN CHOOSE k \in 1..(Len(t) - 1) :
            /\ t[k] = "{" /\ t[k + 1] = "{"
            /\ \A j \in 1..(k - 1) : ~(t[j] = "{" /\ t[j + 1] = "{")
    ELSE 0

RECURSIVE parse(_)
\* The template's nodes: data, a variable, or the syntax error the lexer or
\* parser stops at.  Text outside "{{ ... }}" is data; inside, one identifier
\* between optional blanks is a variable, anything else is a syntax error.
parse(t) ==
    IF t = <<>> THEN <<>>
    ELSE IF find_open(t) = 0 THEN <<[kind |-> "data", text |-> t]>>
    ELSE LET k == find_open(t)
             before == IF k > 1 THEN <<[kind |-> "data", text |-> SubSeq(t, 1, k - 1)]>> ELSE <<>>
             expr == lstrip(SubSeq(t, k + 2, Len(t)))
             after == IF expr = <<>> THEN <<>> ELSE lstrip(Tail(expr))
         IN IF /\ expr # <<>> /\ Head(expr) \in Identifiers
               /\ Len(after) >= 2 /\ after[1] = "}" /\ after[2] = "}"
            THEN before \o <<[kind |-> "var", text |-> <<Head(expr)>>]>>
                        \o parse(SubSeq(after, 3, Len(after)))
            ELSE before \o <<[kind |-> "error", text |-> <<>>]>>

\* markupsafe.escape of one character
escape_char(c) ==
    CASE c = "&" -> <<"&", "amp", ";">>
      [] c = "<" -> <<"&", "lt", ";">>
      [] c = ">" -> <<"&", "gt", ";">>
      [] c = "'" -> <<"&", "#39", ";">>
      [] c = "\"" -> <<"&", "#34", ";">>
      [] OTHER -> <<c>>

\* markupsafe.escape
escape(v) == Concat([k \in 1..Len(v) |-> escape_char(v[k])])

\* a plausible slip: autoescape left off, the value inserted as it is
no_escape(v) == v

\* what the autoescaping environment does to a substituted value
finalize(v) == escape(v)

\* The pieces the compiled template yields, in order.  A name the context
\* lacks is jinja2's default Undefined, which prints as the empty string.
render_pieces(t, context) ==
    LET nodes == parse(t)
    IN [k \in 1..Len(nodes) |->
          IF nodes[k].kind = "var"
          THEN [kind |-> "var", name |-> nodes[k].text[1],
                text |-> IF nodes[k].text[1] \in DOMAIN context
                         THEN finalize(context[nodes[k].text[1]]) ELSE <<>>]
          ELSE [kind |-> nodes[k].kind, name |-> "", text |-> nodes[k].text]]

\* render_text: raises on a template that does not compile, else the text
render_text(template_str, context) ==
    LET pieces == render_pieces(template_str, context)
    IN IF \E k \in 1..Len(pieces) : pieces[k].kind = "error"
       THEN [raised |-> "TemplateSyntaxError", out |-> <<>>, pieces |-> <<>>]
       ELSE [raised |-> "", out |-> Concat([k \in 1..Len(pieces) |-> pieces[k].text]),
             pieces |-> pieces]

-----------------------------------------------------------------------------
(* File names and display names *)

\* name.replace(ch, "-") for each ch of '<>:"/\\|?*\n\r\t', then " ".join(name.split()).strip()
\* sanitize_filename without its last line: the characters are replaced, the
\* white space is left as it is
sanitize_replace_only(name) ==
    LET bad == {"<", ">", ":", "\"", "/", "\\", "|", "?", "*", "\n", "\r", "\t"}
    IN [k \in 1..Len(name) |-> IF name[k] \in bad THEN "-" ELSE name[k]]

sanitize_filename(name) ==
    LET bad == {"<", ">", ":", "\"", "/", "\\", "|", "?", "*", "\n", "\r", "\t"}
        dashed == [k \in 1..Len(name) |-> IF name[k] \in bad THEN "-" ELSE name[k]]
        \* keep a symbol unless it is white space; keep one blank for a run of
        \* white space that has text on both sides
        kept == SelectFrom(dashed,
                    [k \in 1..Len(dashed) |->
                        \/ dashed[k] \notin WhiteSpace
                        \/ /\ k > 1 /\ dashed[k - 1] \notin WhiteSpace
                           /\ \E j \in (k + 1)..Len(dashed) : dashed[j] \notin WhiteSpace], 1)
    IN [k \in 1..Len(kept) |-> IF kept[k] \in WhiteSpace THEN " " ELSE kept[k]]

CapitalOf ==
    [a |-> "A", b |-> "B", n |-> "N", x |-> "X", poc |-> "Poc", tl |-> "Tl", TL |-> "Tl",
     cm |-> "Cm", john |-> "John", doe |-> "Doe", smith |-> "Smith", acme |-> "Acme"]

\* str.capitalize() of a word: the first symbol capitalised, the others lower-cased
capitalize(w) ==
    [k \in 1..Len(w) |->
        IF k = 1 THEN (IF w[1] \in DOMAIN CapitalOf THEN CapitalOf[w[1]] ELSE w[1])
        ELSE lower(<<w[k]>>)[1]]

RECURSIVE words(_, _)
\* str.split(): the runs of symbols between white space
words(s, acc) ==
    IF s = <<>> THEN (IF acc = <<>> THEN <<>> ELSE <<acc>>)
    ELSE IF Head(s) \in WhiteSpace
        THEN (IF acc = <<>> THEN <<>> ELSE <<acc>>) \o words(Tail(s), <<>>)
    ELSE words(Tail(s), Append(acc, Head(s)))

derive_display_name_from_email(email0) ==
    LET email == strip_angle_display(email0)
        local == split1(email, "@")[1]
        pretty == strip(replace(replace(replace(local, ".", " "), "_", " "), "-", " "))
        ws == words(pretty, <<>>)
        name == join(<<" ">>, [k \in 1..Len(ws) |-> capitalize(ws[k])])
    IN IF name # <<>> THEN name ELSE <<"POC">>

-----------------------------------------------------------------------------
(* The batch run: the body of the "Generate .oft templates" button *)

ERDDB == <<"ERDDBTeam", ".", "Global", "@", "Bain", ".", "com">>

SEBASTIAN == <<"Sebastian", ".", "Sambale", "@", "Bain", ".", "com">>

RowOK ==
    [client_name |-> <<"Acme">>, case_code |-> <<"C100">>, case_manager_name |-> <<"Dana">>,
     to |-> <<"cm", "@", "acme", ".", "com">>,
     team_lead_email |-> <<"tl", "@", "acme", ".", "com">>,
     POC_name |-> <<"poc", "@", "acme", ".", "com">>,
     POC_display_name |-> <<>>, extra_cc |-> <<>>]

\* the rows a sheet is made of: a complete one, three that lack a required
\* field, three with a recipient that is no address, and one with markup in
\* the client name, a slash and a run of blanks in the case code, a display
\* name in To and the same address as team lead
RowSet ==
    {RowOK,
     [RowOK EXCEPT !.to = <<" ">>],
     [RowOK EXCEPT !.client_name = <<>>],
     [RowOK EXCEPT !.case_code = <<" ", " ">>],
     [RowOK EXCEPT !.to = <<"not", "-", "an", "-", "email">>],
     [RowOK EXCEPT !.team_lead_email = <<"tl">>],
     [RowOK EXCEPT !.extra_cc = <<"x", "@", "y", ";", "cm", "@", "acme", ".", "com">>],
     [RowOK EXCEPT !.client_name = <<"A", "&", "B", " ", "<", "Co", ">">>,
                   !.case_code = <<"C", "/", " ", " ", "200">>,
                   !.to = <<"John", " ", "<", "tl", "@", "acme", ".", "com", ">">>,
                   !.team_lead_email = <<"TL", "@", "acme", ".", "com">>,
                   !.POC_display_name = <<"Pat">>]}

Batches == UNION {[1..n -> RowSet] : n \in 1..MaxRows}

Init ==
    /\ func \in Range(FUNCTIONS)
    /\ rows \in Batches
    /\ i = 0 /\ pc = "start" /\ cur = <<>>
    /\ status = <<>> /\ archive = <<>> /\ calls = <<>> /\ renders = <<>>
    /\ checks = <<>> /\ warnings = <<>> /\ com = 0
    /\ fn = "idle" /\ arg = <<>> /\ ret = <<>>

\* OutlookSession.__enter__ returns: CoInitialize, then Dispatch
OpenSession ==
    /\ pc = "start"
    /\ com' = com + 1
    /\ i' = 1
    /\ pc' = "loop"
    /\ UNCHANGED <<func, rows, cur, status, archive, calls, renders, checks, warnings, fn, arg, ret>>

\* OutlookSession.__enter__ raises, in CoInitialize or, after it, in Dispatch:
\* __exit__ is not run and the exception leaves the handler
OpenSessionFails ==
    /\ pc = "start"
    /\ \E raises \in {"CoInitialize", "Dispatch"} :
           com' = IF raises = "Dispatch" THEN com + 1 ELSE com
    /\ pc' = "crashed"
    /\ UNCHANGED <<func, rows, i, cur, status, archive, calls, renders, checks, warnings, fn, arg, ret>>

\* a plausible slip: the cell as it is, .strip() forgotten
field_unstripped(r, key) == r[key]

\* str(r.get(key) or "").strip()
field(r, key) == strip(r[key])

\* the locals of one loop iteration, up to the recipient checks
locals(r) ==
    LET client == field(r, "client_name")
        code == field(r, "case_code")
        to_ == field(r, "to")
        tl == field(r, "team_lead_email")
        poc == field(r, "POC_name")
        extra == field(r, "extra_cc")
    IN [client |-> client, code |-> code, to_ |-> to_,
        ctx |-> [client_name |-> client, case_code |-> code,
                 case_manager_name |-> field(r, "case_manager_name"),
                 poc_display_name |-> IF field(r, "POC_display_name") # <<>>
                                      THEN field(r, "POC_display_name")
                                      ELSE derive_display_name_from_email(poc),
                 today |-> <<"03 Nov 2026">>],
        base |-> sanitize_filename(client \o <<" ", "-", " ">> \o code),
        cc |-> <<dedup_against_to(to_, build_cc(<<tl, poc, extra, ERDDB>>)),
                 dedup_against_to(to_, build_cc(<<ERDDB, tl, SEBASTIAN>>)),
                 dedup_against_to(to_, build_cc(<<SEBASTIAN, tl, ERDDB, poc>>))>>]

CheckLabels == <<"To", "CC (Sebastian)", "CC (POC)", "CC (Aseem)">>

\* a plausible slip: only To is validated, the stage CCs are not
checked_to_only(l) == <<l.to_, l.to_, l.to_, l.to_>>

\* the four strings the loop hands to assert_recipients_or_warn, in order
checked(l) == <<l.to_, l.cc[1], l.cc[2], l.cc[3]>>

StageSlot == <<"sebastian", "poc", "aseem">>

StageFolder == <<"1_Sebastian_Initial/", "2_POC_Follow_Up/", "3_Aseem_Escalation/">>

\* one loop iteration from its first line to the recipient checks: the row is
\* skipped, fails in the subject, or goes on to its first stage
BeginRow ==
    /\ pc = "loop" /\ i <= Len(rows)
    /\ LET l == locals(rows[i])
           subject == render_text(get_templates_for_function(func).subject, l.ctx)
           results == [k \in 1..4 |-> [row |-> i, label |-> CheckLabels[k], recips |-> checked(l)[k],
                                       ok |-> assert_recipients_or_warn(checked(l)[k])]]
           warned == [k \in 1..4 |-> [row |-> i, label |-> CheckLabels[k],
                                      bad |-> bad_recipients(checked(l)[k])]]
       IN IF l.client = <<>> \/ l.code = <<>> \/ l.to_ = <<>>
          THEN /\ status' = Append(status, [row |-> i, kind |-> "SKIPPED", msg |-> "missing client/code/to"])
               /\ i' = i + 1
               /\ UNCHANGED <<pc, cur, renders, checks, warnings>>
          ELSE IF subject.raised # ""
          THEN /\ status' = Append(status, [row |-> i, kind |-> "FAILED", msg |-> subject.raised])
               /\ renders' = Append(renders, [row |-> i, slot |-> "subject"])
               /\ i' = i + 1
               /\ UNCHANGED <<pc, cur, checks, warnings>>
          ELSE /\ renders' = Append(renders, [row |-> i, slot |-> "subject"])
               /\ checks' = checks \o results
               /\ warnings' = warnings \o SelectSeq(warned, LAMBDA w : w.bad # <<>>)
               /\ IF \A k \in 1..4 : results[k].ok
                  THEN /\ cur' = l @@ [subject |-> subject.out, stage |-> 1]
                       /\ pc' = "stage"
                       /\ UNCHANGED <<status, i>>
                  ELSE /\ status' = Append(status, [row |-> i, kind |-> "SKIPPED", msg |-> "invalid recipients"])
                       /\ i' = i + 1
                       /\ UNCHANGED <<pc, cur>>
    /\ UNCHANGED <<func, rows, archive, calls, com, fn, arg, ret>>

\* a plausible slip: the subject rendered for the first message of the batch
\* is used for every later one
message_first_subject(body) ==
    [subject |-> IF calls # <<>> THEN calls[1].msg.subject ELSE cur.subject,
     to |-> cur.to_, cc |-> cur.cc[cur.stage], bcc |-> <<"/", "/">>, body |-> body]

\* the message create_oft_bytes_reuse is called with at the current stage
message(body) ==
    [subject |-> cur.subject, to |-> cur.to_, cc |-> cur.cc[cur.stage], bcc |-> <<"/", "/">>,
     body |-> body]

\* one stage: the body is rendered, create_oft_bytes_reuse returns the bytes of
\* the message and zf.writestr stores them; after the third the row is OK
StageDone ==
    /\ pc = "stage"
    /\ LET body == render_text(get_templates_for_function(func)[StageSlot[cur.stage]], cur.ctx)
       IN /\ body.raised = ""
          /\ renders' = Append(renders, [row |-> i, slot |-> StageSlot[cur.stage]])
          /\ calls' = Append(calls, [row |-> i, stage |-> cur.stage, msg |-> message(body.out), ok |-> TRUE])
          /\ archive' = Append(archive, [row |-> i, stage |-> cur.stage,
                                         path |-> <<StageFolder[cur.stage]>> \o cur.base \o <<".oft">>,
                                         oft |-> message(body.out)])
    /\ IF cur.stage < 3
       THEN /\ cur' = [cur EXCEPT !.stage = cur.stage + 1]
            /\ UNCHANGED <<status, i, pc>>
       ELSE /\ status' = Append(status, [row |-> i, kind |-> "OK", msg |-> cur.base])
            /\ i' = i + 1
            /\ pc' = "loop"
            /\ cur' = <<>>
    /\ UNCHANGED <<func, rows, checks, warnings, com, fn, arg, ret>>

\* a plausible slip: the try statement around the loop instead of inside it,
\* so that the first failure ends the batch
StageFailsAborts ==
    /\ pc = "stage"
    /\ pc' = "done"
    /\ com' = com - 1
    /\ cur' = <<>>
    /\ UNCHANGED <<func, rows, i, status, archive, calls, renders, checks, warnings, fn, arg, ret>>

\* one stage: render_text raises, or the body is rendered and
\* create_oft_bytes_reuse raises; the except clause records the row as FAILED
\* and the loop goes on
StageFails ==
    /\ pc = "stage"
    /\ LET body == render_text(get_templates_for_function(func)[StageSlot[cur.stage]], cur.ctx)
       IN /\ renders' = Append(renders, [row |-> i, slot |-> StageSlot[cur.stage]])
          /\ IF body.raised # ""
             THEN /\ status' = Append(status, [row |-> i, kind |-> "FAILED", msg |-> body.raised])
                  /\ UNCHANGED calls
             ELSE /\ status' = Append(status, [row |-> i, kind |-> "FAILED", msg |-> "com_error"])
                  /\ calls' = Append(calls, [row |-> i, stage |-> cur.stage,
                                             msg |-> message(body.out), ok |-> FALSE])
    /\ i' = i + 1
    /\ pc' = "loop"
    /\ cur' = <<>>
    /\ UNCHANGED <<func, rows, archive, checks, warnings, com, fn, arg, ret>>

\* the loop is over: the with statement leaves, the zip file is closed and
\* OutlookSession.__exit__ calls CoUninitialize
CloseSession ==
    /\ pc = "loop" /\ i > Len(rows)
    /\ com' = com - 1
    /\ pc' = "done"
    /\ UNCHANGED <<func, rows, i, cur, status, archive, calls, renders, checks, warnings, fn, arg, ret>>

Next ==
    \/ OpenSession
    \/ OpenSessionFails
    \/ BeginRow
    \/ StageDone
    \/ StageFails
    \/ CloseSession

Spec == Init /\ [][Next]_vars

-----------------------------------------------------------------------------
(* The pure functions, each applied once to an input drawn from a bounded set *)

\* the batch run has not been started
BatchIdle ==
    /\ func = "ER&D" /\ rows = <<>> /\ i = 0 /\ pc = "idle" /\ cur = <<>>
    /\ status = <<>> /\ archive = <<>> /\ calls = <<>> /\ renders = <<>>
    /\ checks = <<>> /\ warnings = <<>> /\ com = 0

\* every way to cut a text in two
Cuts(texts) == {<<SubSeq(t, 1, c), SubSeq(t, c + 1, Len(t))>> : <<t, c>> \in {<<t, c>> \in texts \X (0..(MaxLen + 1)) : c <= Len(t)}}

MergeAlphabet == {"a", "A", "b", ";", ",", " "}

MergeInputs == Cuts(Texts(MergeAlphabet, MaxLen))

InitMerge == BatchIdle /\ fn = "idle" /\ arg \in MergeInputs /\ ret = <<>>

ApplyBuildCc ==
    /\ fn = "idle" /\ arg \in MergeInputs
    /\ fn' = "build_cc"
    /\ ret' = build_cc(arg)
    /\ UNCHANGED <<arg, func, rows, i, pc, cur, status, archive, calls, renders, checks, warnings, com>>

NextMerge == ApplyBuildCc

SpecMerge == InitMerge /\ [][NextMerge]_vars

\* the entries the To and CC lists given to dedup_against_to are made of
DedupEntries ==
    {<<"a">>, <<"A">>, <<"b">>, <<" ", "b">>,
     <<"n", " ", "<", "a", ">">>, <<"n", " ", "<", "A", ">">>}

DedupLists == {join(<<";">>, es) : es \in Texts(DedupEntries, MaxEntries)}

\* the example of the documentation and a To entry with a display name
DedupExamples ==
    {<<<<"a", "@", "x", ".", "com">>,
       <<"A", "@", "X", ".", "com", ";", " ", "b", "@", "y", ".", "com">>>>,
     <<<<"John", " ", "<", "tl", "@", "acme", ".", "com", ">">>,
       <<"TL", "@", "acme", ".", "com", ";", "b", "@", "y", ".", "com">>>>}

DedupInputs == (DedupLists \X DedupLists) \cup DedupExamples

InitDedup == BatchIdle /\ fn = "idle" /\ arg \in DedupInputs /\ ret = <<>>

ApplyDedupAgainstTo ==
    /\ fn = "idle" /\ arg \in DedupInputs
    /\ fn' = "dedup_against_to"
    /\ ret' = dedup_against_to(arg[1], arg[2])
    /\ UNCHANGED <<arg, func, rows, i, pc, cur, status, archive, calls, renders, checks, warnings, com>>

NextDedup == ApplyDedupAgainstTo

SpecDedup == InitDedup /\ [][NextDedup]_vars

\* the pieces the validator's inputs are made of
Fragments ==
    {<<"x", "@", "y", ".", "z">>, <<"<">>, <<">">>, <<" ">>, <<";">>, <<"/", "/">>,
     <<"n">>, <<"@">>, <<".">>, <<"not", "-", "an", "-", "email">>}

ValidateInputs == {Concat(fs) : fs \in Texts(Fragments, MaxFrags)}

InitValidate == BatchIdle /\ fn = "idle" /\ arg \in ValidateInputs /\ ret = <<>>

\* the result is the pair (returned flag, entries named in the warning)
ApplyAssertRecipients ==
    /\ fn = "idle" /\ arg \in ValidateInputs
    /\ fn' = "assert_recipients_or_warn"
    /\ ret' = [ok |-> assert_recipients_or_warn(arg), bad |-> bad_recipients(arg), raised |-> ""]
    /\ UNCHANGED <<arg, func, rows, i, pc, cur, status, archive, calls, renders, checks, warnings, com>>

NextValidate == ApplyAssertRecipients

SpecValidate == InitValidate /\ [][NextValidate]_vars

ValAlphabet == {"a", "&", "<", ">", "\"", "'"}

FullContexts ==
    [client_name : Texts(ValAlphabet, MaxValLen),
     case_code : {<<"C100">>},
     case_manager_name : {<<"Dana">>, <<"&">>},
     poc_display_name : {<<"Poc">>, <<"<">>},
     today : {<<"03 Nov 2026">>}]

Restrict(f, keys) == [k \in keys |-> f[k]]

\* contexts with every name, and contexts that lack one
RenderContexts ==
    FullContexts
    \cup {Restrict(c, DOMAIN c \ {"case_manager_name"}) : c \in FullContexts}
    \cup {Restrict(c, DOMAIN c \ {"client_name"}) : c \in FullContexts}

Slots == {"subject", "sebastian", "poc", "aseem"}

\* templates outside the registry: an unknown name, and three that do not compile or hold no variable
ExtraTemplates ==
    {<<"Hi ", "{", "{", " ", "nickname", " ", "}", "}", "!">>,
     <<"{", "{", " ", "}", "}">>,
     <<"{", "{", " ", "client_name">>,
     <<"a", "{", "b", "}">>}

RenderInputs ==
    {[func |-> f, slot |-> sl, tpl |-> get_templates_for_function(f)[sl], ctx |-> c] :
        f \in Range(FUNCTIONS), sl \in Slots, c \in RenderContexts}
    \cup {[func |-> "", slot |-> "", tpl |-> t, ctx |-> c] : t \in ExtraTemplates, c \in RenderContexts}

InitRender == BatchIdle /\ fn = "idle" /\ arg \in RenderInputs /\ ret = <<>>

ApplyRenderText ==
    /\ fn = "idle" /\ arg \in RenderInputs
    /\ fn' = "render_text"
    /\ ret' = render_text(arg.tpl, arg.ctx)
    /\ UNCHANGED <<arg, func, rows, i, pc, cur, status, archive, calls, renders, checks, warnings, com>>

NextRender == ApplyRenderText

SpecRender == InitRender /\ [][NextRender]_vars

-----------------------------------------------------------------------------
(* The case filter of app8.py *)

\* A cell of a date column as pd.read_excel gives it: no value, a date with a
\* time of day (midnight or noon), or a text that is no date.
DateCells ==
    {[kind |-> "empty", day |-> 0, noon |-> FALSE], [kind |-> "text", day |-> 0, noon |-> FALSE]}
        \cup [kind : {"date"}, day : 1..MaxDay, noon : BOOLEAN]

\* the cell of a text column that holds no value (a float NaN)
NaN == <<"NaN">>

NaT == [nat |-> TRUE, ts |-> 0]

\* a timestamp counts half days: day d at midnight is 2 * d
Timestamp(day, noon) == [nat |-> FALSE, ts |-> 2 * day + (IF noon THEN 1 ELSE 0)]

\* pd.to_datetime(series, errors="coerce"), cell by cell: what does not parse
\* becomes NaT
parse_date_series(cell) ==
    IF cell.kind = "date" THEN Timestamp(cell.day, cell.noon) ELSE NaT

\* Series.astype(str), cell by cell
astype_str(cell) == IF cell = NaN THEN <<"nan">> ELSE cell

\* Series.str.contains(pat, case=False) for a pattern of plain words
str_contains(text, pat) ==
    \E k \in 1..(Len(text) - Len(pat) + 1) :
        \A j \in 1..Len(pat) : lower(text)[k + j - 1] = lower(pat)[j]

TARGET_FUNCTIONS ==
    <<<<"Engineering", " ", "Research", " ", "and", " ", "Development">>,
      <<"Procurement">>,
      <<"Supply", " ", "Chain">>,
      <<"Manufacturing">>>>

ALLOW == <<"Allow", " ", "Data", " ", "Collection">>

active_mask(row) == parse_date_series(row["Case End Date"]).nat

start_in_range_mask(row, range_start_date, range_end_date) ==
    LET dt == parse_date_series(row["Case Start Date"])
        range_start == Timestamp(range_start_date, FALSE)
        range_end == Timestamp(range_end_date, FALSE)
    IN ~dt.nat /\ dt.ts >= range_start.ts /\ dt.ts <= range_end.ts

dnc_mask(row) == strip(astype_str(row["System DNC Status"])) = ALLOW

func_mask(row) ==
    \E k \in 1..Len(TARGET_FUNCTIONS) :
        str_contains(astype_str(row["Applicable Functions"]), TARGET_FUNCTIONS[k])

final_mask(row, range_start_date, range_end_date) ==
    /\ active_mask(row)
    /\ start_in_range_mask(row, range_start_date, range_end_date)
    /\ dnc_mask(row)
    /\ func_mask(row)

\* the cells of the two text columns
StatusCells ==
    {NaN, ALLOW, <<" ">> \o ALLOW \o <<" ">>, <<"allow", " ", "data", " ", "collection">>,
     <<"Do", " ", "Not", " ", "Contact">>}

TagFragments ==
    {<<"Procurement">>, <<"PROCUREMENT">>, <<"Supply", " ", "Chain">>, <<"Supply">>, <<"Chain">>,
     <<"Manufacturing">>, <<"Finance">>, <<";", " ">>,
     <<"engineering", " ", "research", " ", "and", " ", "development">>}

FunctionCells == {NaN} \cup {Concat(fs) : fs \in Texts(TagFragments, MaxTags)}

CaseRows ==
    {("Case Start Date" :> c[1]) @@ ("Case End Date" :> c[2])
        @@ ("System DNC Status" :> c[3]) @@ ("Applicable Functions" :> c[4]) :
        c \in DateCells \X DateCells \X StatusCells \X FunctionCells}

\* a case repository and the range picked in the side bar
FilterInputs ==
    {in \in [df : UNION {[1..n -> CaseRows] : n \in 1..MaxCases},
              range_start_date : 1..MaxDay, range_end_date : 1..MaxDay] :
        in.range_start_date <= in.range_end_date}

InitFilter == BatchIdle /\ fn = "idle" /\ arg \in FilterInputs /\ ret = <<>>

\* steps 4 to 10 of the script: filtered_df = df.loc[final_mask]
ApplyFilter ==
    /\ fn = "idle" /\ arg \in FilterInputs
    /\ fn' = "filter"
    /\ ret' = SelectFrom(arg.df, [k \in 1..Len(arg.df) |->
                             final_mask(arg.df[k], arg.range_start_date, arg.range_end_date)], 1)
    /\ UNCHANGED <<arg, func, rows, i, pc, cur, status, archive, calls, renders, checks, warnings, com>>

NextFilter == ApplyFilter

SpecFilter == InitFilter /\ [][NextFilter]_vars

\* the pieces the inputs of derive_display_name_from_email are made of
DisplayFragments ==
    {<<"john">>, <<"Doe">>, <<".">>, <<"_">>, <<"-">>, <<"@">>, <<" ">>, <<"<">>, <<">">>,
     <<"@", "acme", ".", "com">>}

\* the two examples of the documentation
DisplayExamples ==
    {<<"john", ".", "doe", "_", "smith", "@", "acme", ".", "com">>,
     <<"@", "acme", ".", "com">>}

DisplayInputs == {Concat(fs) : fs \in Texts(DisplayFragments, MaxFrags)} \cup DisplayExamples

InitDisplay == BatchIdle /\ fn = "idle" /\ arg \in DisplayInputs /\ ret = <<>>

ApplyDeriveDisplayName ==
    /\ fn = "idle" /\ arg \in DisplayInputs
    /\ fn' = "derive_display_name_from_email"
    /\ ret' = derive_display_name_from_email(arg)
    /\ UNCHANGED <<arg, func, rows, i, pc, cur, status, archive, calls, renders, checks, warnings, com>>

NextDisplay == ApplyDeriveDisplayName

SpecDisplay == InitDisplay /\ [][NextDisplay]_vars

-----------------------------------------------------------------------------
(* The recipient functions as the specification words them *)

RECURSIVE ClaimScan(_, _)
\* the pieces of s between separators, read one symbol at a time
ClaimScan(s, acc) ==
    IF s = <<>> THEN <<acc>>
    ELSE IF Head(s) \in {";", ","} THEN <<acc>> \o ClaimScan(Tail(s), <<>>)
    ELSE ClaimScan(Tail(s), Append(acc, Head(s)))

\* "split on ; and , into trimmed, non-empty tokens, preserving order"
ClaimTokens(s) ==
    LET pieces == ClaimScan(s, <<>>)
    IN SelectSeq([k \in 1..Len(pieces) |-> strip(pieces[k])], LAMBDA p : p # <<>>)

\* "if an entry contains <...>, the substring between the first < and the
\* first > after it is the email; otherwise the whole entry is the email"
ClaimEmail(e) ==
    IF \E p \in 1..Len(e), q \in 1..Len(e) : p < q /\ e[p] = "<" /\ e[q] = ">"
    THEN LET p == CHOOSE p \in 1..Len(e) : e[p] = "<" /\ \A j \in 1..(p - 1) : e[j] # "<"
             q == CHOOSE q \in (p + 1)..Len(e) : e[q] = ">" /\ \A j \in (p + 1)..(q - 1) : e[j] # ">"
         IN strip(SubSeq(e, p + 1, q - 1))
    ELSE e

\* "a simple local@domain.tld-shaped string with no embedded whitespace or @"
ClaimEmailShape(s) ==
    /\ Cardinality({k \in 1..Len(s) : s[k] = "@"}) = 1
    /\ \A k \in 1..Len(s) : s[k] \notin WhiteSpace
    /\ LET at == CHOOSE k \in 1..Len(s) : s[k] = "@"
       IN /\ at > 1
          /\ \E dot \in (at + 2)..(Len(s) - 1) : s[dot] = "."

\* the first place in list all of an entry that agrees with e in lower case
FirstSeen(all, e) ==
    CHOOSE k \in 1..Len(all) :
        lower(all[k]) = lower(e) /\ \A j \in 1..(k - 1) : lower(all[j]) # lower(e)

\* C8: build_cc returns, joined with "; ", the trimmed non-empty tokens of its
\* sources in source order, each lower-cased text once, at its first occurrence.
C8_MergeFirstSeenNoDup ==
    fn = "build_cc" =>
        LET all == ClaimTokens(arg[1]) \o ClaimTokens(arg[2])
            out == ClaimTokens(ret)
        IN /\ ret = join(<<";", " ">>, out)
           /\ \A p, q \in 1..Len(out) : p < q => lower(out[p]) # lower(out[q])
           /\ \A k \in 1..Len(all) : \E p \in 1..Len(out) : lower(out[p]) = lower(all[k])
           /\ \A p \in 1..Len(out) :
                /\ \E k \in 1..Len(all) : lower(all[k]) = lower(out[p])
                /\ out[p] = all[FirstSeen(all, out[p])]
           /\ \A p, q \in 1..Len(out) : p < q => FirstSeen(all, out[p]) < FirstSeen(all, out[q])

\* a later duplicate in another case and in another source has been dropped
C8_Witness ==
    /\ fn = "build_cc"
    /\ arg = <<<<"a", ",", "b">>, <<"A">>>>
    /\ ret = <<"a", ";", " ", "b">>

\* C2: dedup_against_to drops the CC entries whose lower-cased email portion is
\* the lower-cased email portion of a To entry and keeps the others in order,
\* joined with "; "; no entry of the result shares its email with a To entry.
C2_DedupByEmail ==
    fn = "dedup_against_to" =>
        LET to_emails == {lower(ClaimEmail(t)) : t \in Range(ClaimTokens(arg[1]))}
            kept == SelectSeq(ClaimTokens(arg[2]), LAMBDA e : lower(ClaimEmail(e)) \notin to_emails)
        IN /\ ret = join(<<";", " ">>, kept)
           /\ \A e \in Range(ClaimTokens(ret)) : lower(ClaimEmail(e)) \notin to_emails

\* C9: assert_recipients_or_warn never raises, reports exactly the tokens other
\* than "//" whose email portion is not of the shape local@domain.tld, and
\* returns valid exactly when it reports none.
C9_ValidIffEmailShape ==
    fn = "assert_recipients_or_warn" =>
        /\ ret.raised = ""
        /\ ret.bad = SelectSeq(ClaimTokens(arg),
                               LAMBDA r : r # <<"/", "/">> /\ ~ClaimEmailShape(ClaimEmail(r)))
        /\ ret.ok = (ret.bad = <<>>)

-----------------------------------------------------------------------------
(* The renderer and the registry as the specification words them *)

\* the names a template refers to with a "{{ name }}" placeholder
ClaimReferences(t) ==
    {n \in Identifiers :
        \E k \in 1..Len(t) :
            /\ k + 6 <= Len(t)
            /\ SubSeq(t, k, k + 6) = <<"{", "{", " ", n, " ", "}", "}">>}

\* the names whose values a rendering has inserted
Substituted(r) == {r.pieces[k].name : k \in {j \in 1..Len(r.pieces) : r.pieces[j].kind = "var"}}

RECURSIVE HtmlDecode(_)
\* what an HTML reader makes of escaped text
HtmlDecode(s) ==
    IF s = <<>> THEN <<>>
    ELSE IF Len(s) >= 3 /\ s[1] = "&" /\ s[3] = ";"
                        /\ s[2] \in {"amp", "lt", "gt", "#39", "#34"}
        THEN <<CASE s[2] = "amp" -> "&" [] s[2] = "lt" -> "<" [] s[2] = "gt" -> ">"
                 [] s[2] = "#39" -> "'" [] s[2] = "#34" -> "\"">>
             \o HtmlDecode(SubSeq(s, 4, Len(s)))
    ELSE <<Head(s)>> \o HtmlDecode(Tail(s))

\* t occurs in s as a run of neighbouring symbols
IsInfix(t, s) == \E k \in 0..(Len(s) - Len(t)) : SubSeq(s, k + 1, k + Len(t)) = t

\* escaped text: no markup character is left, and every "&" opens an entity
IsEscaped(s) ==
    /\ \A k \in 1..Len(s) : s[k] \notin {"<", ">", "\"", "'"}
    /\ \A k \in 1..Len(s) : s[k] = "&" =>
            /\ k + 2 <= Len(s)
            /\ s[k + 1] \in {"amp", "lt", "gt", "#39", "#34"}
            /\ s[k + 2] = ";"

FullContext(c) ==
    {"client_name", "case_code", "case_manager_name", "poc_display_name"} \subseteq DOMAIN c

\* C1: for every function the subject renders to "<Function> Data Collection -
\* <case_code> (<client_name>)", each body substitutes the names the ER&D body
\* of its stage substitutes, and no placeholder text is left in the output.
C1_SameVariableContract ==
    (fn = "render_text" /\ arg.func \in Range(FUNCTIONS) /\ FullContext(arg.ctx)) =>
        /\ ret.raised = ""
        /\ arg.slot = "subject" =>
              ret.out = <<arg.func, " Data Collection - ">> \o escape(arg.ctx.case_code)
                        \o <<" (">> \o escape(arg.ctx.client_name) \o <<")">>
        /\ arg.slot # "subject" =>
              Substituted(ret) = ClaimReferences(get_templates_for_function("ER&D")[arg.slot])
        /\ \A k \in 1..Len(ret.out) : ret.out[k] \notin {"{", "}"}

\* C6: rendering a template that refers to a name the context lacks raises.
C6_UndefinedNameRaises ==
    (fn = "render_text" /\ ClaimReferences(arg.tpl) \ DOMAIN arg.ctx # {}) =>
        ret.raised # ""

\* C10: every value the renderer inserts is HTML-escaped (it reads back as the
\* context's value and holds no markup character), in subjects as in bodies,
\* and the template's own text is passed through as it is.
C10_ValuesEscaped ==
    (fn = "render_text" /\ ret.raised = "") =>
        /\ ret.out = Concat([k \in 1..Len(ret.pieces) |-> ret.pieces[k].text])
        /\ \A k \in 1..Len(ret.pieces) :
              LET piece == ret.pieces[k]
              IN /\ (piece.kind = "var" /\ piece.name \in DOMAIN arg.ctx) =>
                        /\ IsEscaped(piece.text)
                        /\ HtmlDecode(piece.text) = arg.ctx[piece.name]
                 /\ piece.kind = "data" => IsInfix(piece.text, arg.tpl)

\* the ER&D subject rendered for a client name that holds markup characters
C10_Witness ==
    /\ fn = "render_text"
    /\ arg.func = "ER&D" /\ arg.slot = "subject"
    /\ FullContext(arg.ctx) /\ arg.ctx.client_name = <<"<", "&">>
    /\ ret.out = <<"ER&D", " Data Collection - ", "C100", " (",
                   "&", "lt", ";", "&", "amp", ";", ")">>

-----------------------------------------------------------------------------
(* The batch run as the specification words it *)

\* "mergeRecipients": the tokens of the sources in order, first occurrence kept
ClaimMerge(sources) ==
    LET all == Concat([k \in 1..Len(sources) |-> ClaimTokens(sources[k])])
    IN SelectFrom(all, [k \in 1..Len(all) |-> \A j \in 1..(k - 1) : lower(all[j]) # lower(all[k])], 1)

\* "dedupAgainstTo": the CC entries whose email is the email of no To entry
ClaimDedup(to_, cc_list) ==
    LET to_emails == {lower(ClaimEmail(t)) : t \in Range(ClaimTokens(to_))}
    IN join(<<";", " ">>, SelectSeq(cc_list, LAMBDA e : lower(ClaimEmail(e)) \notin to_emails))

\* the CC sources of a stage, in the order the stage formulas give
ClaimSources(r, stage) ==
    CASE stage = 1 -> <<r.team_lead_email, r.POC_name, r.extra_cc, ERDDB>>
      [] stage = 2 -> <<ERDDB, r.team_lead_email, SEBASTIAN>>
      [] stage = 3 -> <<SEBASTIAN, r.team_lead_email, ERDDB, r.POC_name>>

\* a required field of the row is empty after trimming
ClaimMissing(r) ==
    \E key \in {"client_name", "case_code", "to"} : \A k \in 1..Len(r[key]) : r[key][k] \in WhiteSpace

\* the entries of a log that belong to row j
OfRow(log, j) == SelectSeq(log, LAMBDA e : e.row = j)

\* the loop has been entered
Running == pc \in {"loop", "stage", "done"}

\* C3: the status list holds one entry per row the loop has left, the j-th for
\* the j-th row, whatever the rows before it did; no row is attempted twice;
\* the loop never stops early, and at the end every row has its entry.
C3_OneStatusPerRow ==
    /\ Running => Len(status) = i - 1
    /\ \A j \in 1..Len(status) : status[j].row = j /\ status[j].kind \in {"OK", "SKIPPED", "FAILED"}
    /\ \A p, q \in 1..Len(calls) :
          p < q => <<calls[p].row, calls[p].stage>> # <<calls[q].row, calls[q].stage>>
    /\ \A j \in 1..Len(rows) : Len(OfRow(SelectSeq(renders, LAMBDA e : e.slot = "subject"), j)) <= 1
    /\ pc = "loop" => i \in 1..(Len(rows) + 1)
    /\ pc = "stage" => i \in 1..Len(rows) /\ cur.stage \in 1..3
    /\ pc = "done" => Len(status) = Len(rows)

\* a row has failed in the materializer and the next row is OK
C3_Witness ==
    /\ pc = "done" /\ Len(rows) = 2
    /\ status[1].kind = "FAILED" /\ \E c \in Range(calls) : c.row = 1 /\ ~c.ok
    /\ status[2].kind = "OK"

\* C4: a row that lacks client_name, case_code or to is SKIPPED as missing a
\* required field, with no rendering, no materializer call and no archive
\* entry, and the loop goes on after it.
C4_MissingFieldSkipped ==
    \A j \in 1..Len(rows) : ClaimMissing(rows[j]) =>
        /\ (Running /\ j < i) =>
              /\ j <= Len(status)
              /\ status[j].kind = "SKIPPED" /\ status[j].msg = "missing client/code/to"
        /\ OfRow(renders, j) = <<>>
        /\ OfRow(checks, j) = <<>>
        /\ OfRow(calls, j) = <<>>
        /\ OfRow(archive, j) = <<>>
        /\ pc = "done" => Len(status) = Len(rows)

\* a row whose To is blank has been skipped and the row after it is OK
C4_Witness ==
    /\ pc = "done" /\ Len(rows) = 2
    /\ rows[1].to = <<" ">>
    /\ status[1].kind = "SKIPPED" /\ status[2].kind = "OK"

\* C5: a row that reaches validation has To checked once and each stage's CC
\* checked, before any materializer call; if a check fails the row is SKIPPED
\* as having invalid recipients with no call and no archive entry; a row
\* whose checks pass and whose calls succeed is OK whatever came before it.
C5_InvalidRecipientsSkipped ==
    \A j \in 1..Len(rows) :
        LET cs == OfRow(checks, j)
        IN /\ cs # <<>> =>
                /\ [k \in 1..Len(cs) |-> cs[k].label] = CheckLabels
                /\ cs[1].recips = strip(rows[j].to)
           /\ \A c \in Range(OfRow(calls, j)) :
                /\ Len(cs) = 4
                /\ \A k \in 1..4 : cs[k].ok
                /\ c.msg.cc = cs[c.stage + 1].recips
                /\ c.msg.to = cs[1].recips
           /\ (\E k \in 1..Len(cs) : ~cs[k].ok) =>
                /\ (Running /\ j < i) =>
                      /\ j <= Len(status)
                      /\ status[j].kind = "SKIPPED" /\ status[j].msg = "invalid recipients"
                /\ \E w \in Range(warnings) : w.row = j
                /\ OfRow(calls, j) = <<>>
                /\ OfRow(archive, j) = <<>>
           /\ (/\ j <= Len(status) /\ cs # <<>> /\ \A k \in 1..Len(cs) : cs[k].ok
               /\ \A c \in Range(OfRow(calls, j)) : c.ok) =>
                status[j].kind = "OK"

\* a row with a bad team lead address has been skipped and the next row is OK
C5_Witness ==
    /\ pc = "done" /\ Len(rows) = 2
    /\ rows[1].team_lead_email = <<"tl">>
    /\ \E c \in Range(checks) : c.row = 1 /\ c.label = "CC (POC)" /\ ~c.ok
    /\ status[1].kind = "SKIPPED" /\ status[1].msg = "invalid recipients"
    /\ status[2].kind = "OK"

\* C7: the CC of every stage of a row that is not skipped is
\* dedupAgainstTo(to, mergeRecipients(sources)) for the stage's sources in
\* their fixed order.
C7_StageCcFormulas ==
    \A c \in Range(calls) :
        c.msg.cc = ClaimDedup(rows[c.row].to, ClaimMerge(ClaimSources(rows[c.row], c.stage)))

-----------------------------------------------------------------------------
(* The display name as the specification words it *)

RECURSIVE ClaimWords(_, _)
\* the words of s: its runs of symbols free of white space
ClaimWords(s, acc) ==
    IF s = <<>> THEN (IF acc = <<>> THEN <<>> ELSE <<acc>>)
    ELSE IF Head(s) \in WhiteSpace
        THEN (IF acc = <<>> THEN <<>> ELSE <<acc>>) \o ClaimWords(Tail(s), <<>>)
    ELSE ClaimWords(Tail(s), Append(acc, Head(s)))

\* a word with its first letter in upper case and the others in lower case
ClaimTitle(w) ==
    [k \in 1..Len(w) |->
        IF k = 1 /\ w[1] \in DOMAIN CapitalOf THEN CapitalOf[w[1]]
        ELSE IF k > 1 /\ w[k] \in DOMAIN LowerOf THEN LowerOf[w[k]]
        ELSE w[k]]

\* "extract the email portion; take the substring before @; replace . _ - with
\* spaces; collapse whitespace; title-case each word; if empty, POC"
ClaimDisplayName(e) ==
    LET email == ClaimEmail(strip(e))
        at == IF \E k \in 1..Len(email) : email[k] = "@"
              THEN CHOOSE k \in 1..Len(email) : email[k] = "@" /\ \A j \in 1..(k - 1) : email[j] # "@"
              ELSE Len(email) + 1
        local == SubSeq(email, 1, at - 1)
        spaced == [k \in 1..Len(local) |-> IF local[k] \in {".", "_", "-"} THEN " " ELSE local[k]]
        ws == ClaimWords(spaced, <<>>)
        titled == [k \in 1..Len(ws) |-> ClaimTitle(ws[k])]
    IN IF ws = <<>> THEN <<"POC">> ELSE join(<<" ">>, titled)

\* C11: derive_display_name_from_email returns the title-cased words of the
\* part of the email portion before the first "@", or "POC" when there are
\* none; it never returns the empty text.
C11_DisplayNameDerived ==
    fn = "derive_display_name_from_email" =>
        /\ ret # <<>>
        /\ ret = ClaimDisplayName(arg)

-----------------------------------------------------------------------------
(* The archive paths as the specification words them *)

\* "sanitization replaces filesystem-illegal characters and control whitespace
\* with - and collapses internal whitespace": the words of the text after the
\* replacement, one blank between two of them
ClaimSanitize(t) ==
    LET illegal == {"<", ">", ":", "\"", "/", "\\", "|", "?", "*", "\n", "\r", "\t"}
        dashed == [k \in 1..Len(t) |-> IF t[k] \in illegal THEN "-" ELSE t[k]]
    IN join(<<" ">>, ClaimWords(dashed, <<>>))

ClaimStageName == <<"Sebastian_Initial", "POC_Follow_Up", "Aseem_Escalation">>

ClaimStageIndex == <<"1", "2", "3">>

\* the symbols of a path, whatever pieces it was put together from
Flat(path) == Concat([k \in 1..Len(path) |->
                  IF path[k] = "1_Sebastian_Initial/" THEN <<"1", "_", "Sebastian_Initial", "/">>
                  ELSE IF path[k] = "2_POC_Follow_Up/" THEN <<"2", "_", "POC_Follow_Up", "/">>
                  ELSE IF path[k] = "3_Aseem_Escalation/" THEN <<"3", "_", "Aseem_Escalation", "/">>
                  ELSE <<path[k]>>])

ClaimPath(stage, fileName) ==
    <<ClaimStageIndex[stage], "_", ClaimStageName[stage], "/">> \o fileName \o <<".oft">>

\* C12 as stated: every archive entry of a row has the path
\* "<stageIndex>_<StageName>/<file name>.oft" whose file name is the sanitized
\* client name, then " - ", then the case code as it is.
C12_PathClientSanitizedOnly ==
    \A k \in 1..Len(archive) :
        LET e == archive[k]
            r == rows[e.row]
        IN Flat(e.path) = ClaimPath(e.stage, ClaimSanitize(strip(r.client_name))
                                             \o <<" ", "-", " ">> \o strip(r.case_code))

\* C12 amended: every archive entry of a row has the path
\* "<stageIndex>_<StageName>/<file name>.oft" whose file name is the
\* sanitization of "<client_name> - <case_code>" as one text, so the case code
\* is sanitized too; for Acme and C100 the stage-1 entry is
\* "1_Sebastian_Initial/Acme - C100.oft".
C12_PathWholeNameSanitized ==
    \A k \in 1..Len(archive) :
        LET e == archive[k]
            r == rows[e.row]
        IN /\ Flat(e.path) = ClaimPath(e.stage, ClaimSanitize(strip(r.client_name)
                                                \o <<" ", "-", " ">> \o strip(r.case_code)))
           /\ (r.client_name = <<"Acme">> /\ r.case_code = <<"C100">> /\ e.stage = 1)
                  => Flat(e.path) = <<"1", "_", "Sebastian_Initial", "/", "Acme", " ", "-", " ", "C100", ".oft">>

\* a row whose names hold markup, a slash and a run of blanks has its three
\* entries
C12_Witness ==
    \E k \in 1..Len(archive) :
        /\ archive[k].stage = 3
        /\ rows[archive[k].row].case_code = <<"C", "/", " ", " ", "200">>
        /\ Flat(archive[k].path)
               = <<"3", "_", "Aseem_Escalation", "/", "A", "&", "B", " ", "-", "Co", "-",
                   " ", "-", " ", "C", "-", " ", "200", ".oft">>

-----------------------------------------------------------------------------
(* The outcome of a row as a function of the row alone *)

\* what a row comes to before the materializer is asked, given nothing but
\* its fields and the category: whether it is left early, and the message of
\* every stage
ClaimRowPlan(r, f) ==
    LET l == locals(r)
        t == get_templates_for_function(f)
        subject == render_text(t.subject, l.ctx)
        body == [s \in 1..3 |-> render_text(t[StageSlot[s]], l.ctx)]
        ch == checked(l)
    IN [early |-> IF l.client = <<>> \/ l.code = <<>> \/ l.to_ = <<>> THEN "SKIPPED"
                  ELSE IF subject.raised # "" THEN "FAILED"
                  ELSE IF \E k \in 1..4 : ~assert_recipients_or_warn(ch[k]) THEN "SKIPPED"
                  ELSE "",
        raised |-> [s \in 1..3 |-> body[s].raised # ""],
        result |-> [s \in 1..3 |-> [subject |-> subject.out, to |-> l.to_, cc |-> l.cc[s],
                                    bcc |-> <<"/", "/">>, body |-> body[s].out]]]

\* the outcome of a row with that plan, given the answers of the materializer
\* to its three calls: the kind of its status and the messages handed to the
\* materializer, in stage order
ClaimRowOutcome(plan, answers) ==
    LET reached(s) == \A u \in 1..(s - 1) : ~plan.raised[u] /\ answers[u]
        called == {s \in 1..3 : reached(s) /\ ~plan.raised[s]}
    IN IF plan.early # "" THEN [kind |-> plan.early, results |-> <<>>]
       ELSE [kind |-> IF \A s \in 1..3 : ~plan.raised[s] /\ answers[s] THEN "OK" ELSE "FAILED",
             results |-> [s \in 1..Cardinality(called) |-> plan.result[s]]]

\* the answers the materializer gave to the calls of row j, and any answers
\* to the calls that were not made
AnswersFor(j) ==
    {a \in [1..3 -> BOOLEAN] :
        \A c \in Range(OfRow(calls, j)) : a[c.stage] = c.ok}

\* C13: the status kind and the stage results of a row are a function of the
\* row's own fields, the category and the materializer's answers for that
\* row, whatever rows came before it and whatever became of them.
C13_RowOutcomeOwnFieldsOnly ==
    \A j \in 1..Len(status) :
        LET plan == ClaimRowPlan(rows[j], func)
            cs == OfRow(calls, j)
            msgs == [k \in 1..Len(cs) |-> cs[k].msg]
        IN \A a \in AnswersFor(j) :
               LET o == ClaimRowOutcome(plan, a)
               IN status[j].kind = o.kind /\ msgs = o.results

\* the same row twice in one batch, the first time failing in the materializer
\* at its second stage, the second time with three answers
C13_Witness ==
    /\ pc = "done" /\ Len(rows) = 2 /\ rows[1] = rows[2]
    /\ status[1].kind = "FAILED" /\ Len(OfRow(calls, 1)) = 2
    /\ status[2].kind = "OK" /\ Len(OfRow(calls, 2)) = 3

-----------------------------------------------------------------------------
(* The case filter as its documentation words it *)

\* the text of a cell, none for a cell without a value
ClaimCellText(cell) == IF cell = NaN THEN <<>> ELSE cell

ClaimTargetNames ==
    {<<"Engineering", " ", "Research", " ", "and", " ", "Development">>, <<"Procurement">>,
     <<"Supply", " ", "Chain">>, <<"Manufacturing">>}

\* the four conditions of the documentation, on one row
ClaimShortlisted(row, firstDay, lastDay) ==
    /\ row["Case End Date"].kind = "empty"
    /\ strip(ClaimCellText(row["System DNC Status"])) = <<"Allow", " ", "Data", " ", "Collection">>
    /\ row["Case Start Date"].kind = "date"
    /\ row["Case Start Date"].day \in firstDay..lastDay
    /\ \E name \in ClaimTargetNames :
           IsInfix(lower(name), lower(ClaimCellText(row["Applicable Functions"])))

\* C14: the filter keeps a row exactly when it has no Case End Date, its
\* trimmed System DNC Status is "Allow Data Collection", its Case Start Date
\* is a day of the selected range (both ends included) and its Applicable
\* Functions holds one of the four target names in any case.
C14_ShortlistedIffFourConditions ==
    fn = "filter" =>
        \A k \in 1..Len(arg.df) :
            (arg.df[k] \in Range(ret))
                <=> ClaimShortlisted(arg.df[k], arg.range_start_date, arg.range_end_date)

-----------------------------------------------------------------------------
(* The session of the batch run *)

\* C15: the session is acquired once, before the first row, and not again; it
\* is held in every state of the loop, where the materializer is called; and
\* when the handler is left, after the last row or by a failure while the
\* session is opened, nothing that was acquired is still held.
C15_SessionAcquiredOnceAlwaysReleased ==
    /\ com \in {0, 1}
    /\ pc = "start" => com = 0
    /\ pc \in {"loop", "stage"} => com = 1
    /\ Len(calls) > 0 => pc \in {"loop", "stage", "done"}
    /\ pc \in {"done", "crashed"} => com = 0

-----------------------------------------------------------------------------
(* The archive against the status list *)

\* C16: whenever a row has just been left, and at the end of the batch, the
\* archive holds entries of rows with status OK only, one in each of the three
\* stage folders for every such row; a row that is FAILED has no entry.
C16_ArchiveAllOrNothing ==
    pc \in {"loop", "done"} =>
        /\ \A k \in 1..Len(archive) :
              archive[k].row <= Len(status) /\ status[archive[k].row].kind = "OK"
        /\ \A j \in 1..Len(status) :
              \A stage \in 1..3 :
                  Cardinality({k \in 1..Len(archive) : archive[k].row = j /\ archive[k].stage = stage})
                      = IF status[j].kind = "OK" THEN 1 ELSE 0

=============================================================================
